---- MODULE Spec2Model ----
(***************************************************************************)
(* CustomVectorTileSource (main thread, the request coordinator) and       *)
(* CustomVectorTileWorkerSource (worker thread, the indexing engine),      *)
(* connected by one Actor: a FIFO of tasks to the worker and a FIFO of     *)
(* responses back.                                                         *)
(***************************************************************************)
EXTENDS Integers, Sequences, FiniteSets, TLC

\* ---------------------------------------------------------------- bounds
MaxLoads == 3        \* number of _updateWorkerData dispatches (load + setData)
MaxTileReqs == 2     \* number of loadTile calls of the coordinator
MaxUnloads == 1      \* number of unloadTile calls of the coordinator

\* The tiles, by uid.  A handler touches no tile but the one it is called for.
Tiles == {1}
LoadIds == 1..MaxLoads
ReqIds == 1..MaxTileReqs

\* What this._data can be.  "url": a string, fetched by getJSON.  The others
\* are inline values, named by what JSON.parse(JSON.stringify(data)) gives:
\* "valid" a GeoJSON object, "null" a falsy value, "scalar" a truthy value that
\* is no object, "badgeom" an object geojsonvt throws on, "undefined" no data
\* at all (JSON.stringify(undefined) is undefined, not a string).
Inline == {"valid", "null", "scalar", "badgeom", "undefined"}
DataKinds == {"url"} \cup Inline
\* What a getJSON fetch can complete with: an error, or one of the parsed values.
FetchOutcomes == {"neterr", "valid", "null", "scalar", "badgeom"}

NOOP == -1           \* the {cancel: () => {}} handle loadGeoJSON returns

VARIABLES
    \* CustomVectorTileSource
    map,             \* whether this.map is set (onAdd was called)
    _data,           \* this._data
    _pendingLoads,   \* this._pendingLoads
    _removed,        \* this._removed
    nLoads,          \* number of loadData messages sent so far (the id of the last)
    events,          \* load id -> the events the source fired for it, in order
    recv,            \* load id -> what its callback received
    tile,            \* uid -> [actor, request, aborted, data]
    nReqs,           \* number of tile requests sent so far
    nUnloads,        \* number of unloadTile calls so far
    req,             \* request id -> [uid, message, cancelled, done, delivered, ...]
    \* Actor
    callbacks,       \* ids with a callback registered in the main thread's actor
    toWorker,        \* tasks posted to the worker, not yet processed
    toMain,          \* responses posted to the main thread, not yet processed
    \* CustomVectorTileWorkerSource
    worker,          \* [_pendingCallback, _pendingRequest, _vectorTilePlugin, loaded, fetching]
    wlog,            \* what the engine's data loading did so far, in order
    served           \* request id -> how the engine served it

vars == <<map, _data, _pendingLoads, _removed, nLoads, events, recv, tile, nReqs,
          nUnloads, req, callbacks, toWorker, toMain, worker, wlog,
          served>>

coordVars == <<map, _data, _pendingLoads, _removed, nLoads, events, recv>>
tileVars == <<tile, nReqs, nUnloads, req>>
workerVars == <<worker, wlog, served>>

\* ------------------------------------------------------------- messages
Task(type, id, uid, data) == [type |-> type, id |-> id, uid |-> uid, data |-> data]
\* A response to a loadData: err is whether an error is passed, res is the
\* result: "abandoned" for {abandoned: true}, "result" for a result object,
\* "none" for no result.
DataResp(id, err, res) == [type |-> "data", id |-> id, err |-> err, res |-> res, ver |-> 0]
\* A response to a loadTile / reloadTile: ver is the index the tile data was
\* cut from, 0 for no data.
TileResp(id, err, ver) == [type |-> "tile", id |-> id, err |-> err, res |-> "none", ver |-> ver]

DataKey(id) == <<"data", id>>
TileKey(id) == <<"tile", id>>

\* What a handler of the engine does besides changing its state: Begin, a
\* loadData starts; Cancel, it cancels the fetch of loadData id; Fetch, it
\* starts the getJSON fetch of loadData id; DataResp, it calls a callback;
\* and SourceRemoved, removeSource has run.
Begin(id) == [type |-> "begin", id |-> id, err |-> FALSE, res |-> "none", ver |-> 0]
Cancel(id) == [type |-> "cancel", id |-> id, err |-> FALSE, res |-> "none", ver |-> 0]
Fetch(id) == [type |-> "fetch", id |-> id, err |-> FALSE, res |-> "none", ver |-> 0]
SourceRemoved == [type |-> "removed", id |-> 0, err |-> FALSE, res |-> "none", ver |-> 0]

RemoveAt(s, k) == [i \in 1..(Len(s) - 1) |-> IF i < k THEN s[i] ELSE s[i + 1]]


\* ------------------------------------------- CustomVectorTileWorkerSource
\* A handler returns the worker's new state w and out: what it does (the
\* callbacks it calls, the fetches it starts and cancels), in order.

\* A bug the callback could have: this.loaded is kept when the index is built.
LoadDataCallback_KeepLoaded(w, id, err, data) ==
    LET w1 == [w EXCEPT !._pendingCallback = 0, !._pendingRequest = 0]
    IN  IF err \/ data = "null"
        THEN [w |-> w1, out |-> <<DataResp(id, err, "none")>>]
        ELSE IF data \in {"scalar", "badgeom"}
        THEN [w |-> w1, out |-> <<DataResp(id, TRUE, "none")>>]
        ELSE [w |-> [w1 EXCEPT !._vectorTilePlugin = id],
              out |-> <<DataResp(id, FALSE, "result")>>]

\* A bug the callback could have: this.loaded is reset before the index is
\* built, so also when building it throws.
LoadDataCallback_ResetFirst(w, id, err, data) ==
    LET w1 == [w EXCEPT !._pendingCallback = 0, !._pendingRequest = 0]
    IN  IF err \/ data = "null"
        THEN [w |-> w1, out |-> <<DataResp(id, err, "none")>>]
        ELSE IF data = "scalar"
        THEN [w |-> w1, out |-> <<DataResp(id, TRUE, "none")>>]
        ELSE IF data = "badgeom"
        THEN [w |-> [w1 EXCEPT !.loaded = [t \in Tiles |-> -1]],
              out |-> <<DataResp(id, TRUE, "none")>>]
        ELSE [w |-> [w1 EXCEPT !._vectorTilePlugin = id,
                               !.loaded = [t \in Tiles |-> -1]],
              out |-> <<DataResp(id, FALSE, "result")>>]

\* The callback loadData passes to loadGeoJSON (part_000 98-129), for the
\* loadData whose callback is `id`.  err: an error was passed; data: the value.
LoadDataCallback(w, id, err, data) ==
    LET w1 == [w EXCEPT !._pendingCallback = 0, !._pendingRequest = 0]
    IN  IF err \/ data = "null"
        THEN [w |-> w1, out |-> <<DataResp(id, err, "none")>>]
        ELSE IF data = "scalar"
        THEN [w |-> w1, out |-> <<DataResp(id, TRUE, "none")>>]
        ELSE IF data = "badgeom"
        THEN [w |-> w1, out |-> <<DataResp(id, TRUE, "none")>>]
        ELSE [w |-> [w1 EXCEPT !._vectorTilePlugin = id,
                               !.loaded = [t \in Tiles |-> -1]],
              out |-> <<DataResp(id, FALSE, "result")>>]

\* loadGeoJSON (part_000 143-161).  With params.request it starts a getJSON
\* fetch and returns its handle; with a string it parses it and calls back at
\* once; otherwise it calls back with an error.  Both return the no-op handle.
loadGeoJSON(w, id, kind) ==
    IF kind = "url"
    THEN [w |-> [w EXCEPT !.fetching = @ \cup {id}], out |-> <<Fetch(id)>>, handle |-> id]
    ELSE LET r == IF kind = "undefined"
                  THEN LoadDataCallback(w, id, TRUE, "none")
                  ELSE LoadDataCallback(w, id, FALSE, kind)
         IN  [w |-> r.w, out |-> r.out, handle |-> NOOP]

\* this._pendingRequest?.cancel() (part_000 88): cancelling a getJSON fetch
\* stops it, and its callback is not called; the no-op handle does nothing.
CancelPending(w) ==
    [w |-> [w EXCEPT !.fetching = @ \ {w._pendingRequest}],
     out |-> IF w._pendingRequest \in w.fetching THEN <<Cancel(w._pendingRequest)>> ELSE <<>>]

\* part_000 89-92: tell the foreground the previous call has been abandoned.
AbandonPending(w) ==
    IF w._pendingCallback # 0
    THEN <<DataResp(w._pendingCallback, FALSE, "abandoned")>>
    ELSE <<>>

\* A bug loadData could have: the previous callback is not told it was abandoned.
loadData_NoAbandon(w, id, kind) ==
    LET c == CancelPending(w)
        g == loadGeoJSON([c.w EXCEPT !._pendingCallback = id], id, kind)
    IN  [w |-> [g.w EXCEPT !._pendingRequest = g.handle],
         out |-> <<Begin(id)>> \o c.out \o g.out]

\* A bug loadData could have: the previous fetch is not cancelled.
loadData_NoCancel(w, id, kind) ==
    LET g == loadGeoJSON([w EXCEPT !._pendingCallback = id], id, kind)
    IN  [w |-> [g.w EXCEPT !._pendingRequest = g.handle],
         out |-> <<Begin(id)>> \o AbandonPending(w) \o g.out]

\* A bug loadData could have: the new load is started before the previous
\* one is cancelled and abandoned.
loadData_StartFirst(w, id, kind) ==
    LET g == loadGeoJSON([w EXCEPT !._pendingCallback = id], id, kind)
        c == CancelPending([g.w EXCEPT !._pendingRequest = w._pendingRequest])
    IN  [w |-> [c.w EXCEPT !._pendingRequest = g.handle],
         out |-> <<Begin(id)>> \o g.out \o c.out \o AbandonPending(w)]

\* loadData (part_000 84-130): cancel the previous request, abandon the
\* previous callback, then start loading.
loadData(w, id, kind) ==
    LET c == CancelPending(w)
        g == loadGeoJSON([c.w EXCEPT !._pendingCallback = id], id, kind)
    IN  [w |-> [g.w EXCEPT !._pendingRequest = g.handle],
         out |-> <<Begin(id)>> \o c.out \o AbandonPending(w) \o g.out]

\* removeSource (part_000 163-169).
removeSource(w) == [w |-> w, out |-> AbandonPending(w) \o <<SourceRemoved>>]

\* The module's loadTile (part_000 40-67), the loadVectorData of the worker
\* source: the index the tile is cut from, 0 for callback(null, null).
loadVectorData(w) == w._vectorTilePlugin

\* VectorTileWorkerSource.loadTile: loads the vector data, records the worker
\* tile in this.loaded and parses it.  parseOk: whether parsing succeeds.
workerLoadTile(w, uid, parseOk) ==
    LET v == loadVectorData(w)
    IN  [w |-> [w EXCEPT !.loaded[uid] = v],
         err |-> (v # 0 /\ ~parseOk),
         ver |-> IF v # 0 /\ parseOk THEN v ELSE 0,
         path |-> "load"]

\* VectorTileWorkerSource.reloadTile: parses the recorded worker tile again.
superReloadTile(w, uid, parseOk) ==
    LET v == w.loaded[uid]
    IN  [w |-> w,
         err |-> (v # 0 /\ ~parseOk),
         ver |-> IF v # 0 /\ parseOk THEN v ELSE 0,
         path |-> "reencode"]

\* A bug reloadTile could have: no fallback to loadTile.
reloadTile_NoFallback(w, uid, parseOk) ==
    IF w.loaded[uid] # -1
    THEN superReloadTile(w, uid, parseOk)
    ELSE [w |-> w, err |-> FALSE, ver |-> 0, path |-> "reencode"]

\* reloadTile (part_000 132-141).
reloadTile(w, uid, parseOk) ==
    IF w.loaded[uid] # -1
    THEN superReloadTile(w, uid, parseOk)
    ELSE workerLoadTile(w, uid, parseOk)

\* VectorTileWorkerSource.removeTile.
removeTile(w, uid) == [w EXCEPT !.loaded[uid] = -1]


\* ------------------------------------------------ CustomVectorTileSource
\* What a loadData callback was called with.
Tag(m) == IF m.res = "abandoned" THEN "abandoned"
          ELSE IF m.err THEN "error"
          ELSE IF m.res = "result" THEN "result"
          ELSE "empty"

Tags(out) == [k \in 1..Len(out) |-> Tag(out[k])]

\* A bug the callback could have: no return after firing dataabort.
DataCallbackEvents_NoReturn(removed, err, res) ==
    (IF removed \/ res = "abandoned" THEN <<"dataabort">> ELSE <<>>)
    \o (IF err THEN <<"error">> ELSE <<"data">>)

\* A bug the callback could have: this._removed is not looked at.
DataCallbackEvents_NoRemoved(removed, err, res) ==
    IF res = "abandoned" THEN <<"dataabort">>
    ELSE IF err THEN <<"error">>
    ELSE <<"data">>

\* The callback of _updateWorkerData (custom_vector_tile_source.ts 143-165):
\* the events it fires.
DataCallbackEvents(removed, err, res) ==
    IF removed \/ res = "abandoned" THEN <<"dataabort">>
    ELSE IF err THEN <<"error">>
    ELSE <<"data">>

\* A bug the callback could have: tile.aborted is not looked at.
TileCallback_NoAbortCheck(t, err, ver) ==
    LET t1 == [t EXCEPT !.request = 0, !.data = -1]
    IN  IF err THEN [tile |-> t1, done |-> "err", delivered |-> FALSE]
        ELSE [tile |-> [t1 EXCEPT !.data = ver], done |-> "ok", delivered |-> TRUE]

\* The callback of loadTile (custom_vector_tile_source.ts 200-215) on tile t:
\* the tile after it, what it passes to callback, whether loadVectorData ran.
TileCallback(t, err, ver) ==
    LET t1 == [t EXCEPT !.request = 0, !.data = -1]
    IN  IF t.aborted THEN [tile |-> t1, done |-> "ok", delivered |-> FALSE]
        ELSE IF err THEN [tile |-> t1, done |-> "err", delivered |-> FALSE]
        ELSE [tile |-> [t1 EXCEPT !.data = ver], done |-> "ok", delivered |-> TRUE]

\* A tile request: the tile, the message sent, whether the tile was aborted
\* when it was sent (afterAbort) and whether abortTile was called while it was
\* in flight (aborted), whether the source was removed when it was sent and
\* when its response came, the response ("data" or "err"), what the callback
\* passed to done and whether it called loadVectorData (delivered), how many
\* setData/load calls had been made when it was sent (sentLoads) and the index
\* the engine held when its response came (recvIndex).
NoReq == [uid |-> 0, message |-> "none", afterAbort |-> FALSE, aborted |-> FALSE,
          sentRemoved |-> FALSE, recvRemoved |-> FALSE, resp |-> "none",
          done |-> "none", delivered |-> FALSE, sentLoads |-> 0, recvIndex |-> 0]
\* How the engine served a tile request: by loading or by re-encoding, with
\* what result, from which index, and whether the tile was in this.loaded
\* before and after.
NotServed == [path |-> "none", err |-> FALSE, ver |-> 0, index |-> 0,
              wasLoaded |-> FALSE, isLoaded |-> FALSE]

Init ==
    /\ map = FALSE
    /\ _data \in DataKinds
    /\ _pendingLoads = 0
    /\ _removed = FALSE
    /\ nLoads = 0
    /\ events = [i \in LoadIds |-> <<>>]
    /\ recv = [i \in LoadIds |-> "none"]
    /\ tile = [u \in Tiles |-> [actor |-> FALSE, request |-> 0, aborted |-> FALSE, data |-> -1]]
    /\ nReqs = 0
    /\ nUnloads = 0
    /\ req = [r \in ReqIds |-> NoReq]
    /\ callbacks = {}
    /\ toWorker = <<>>
    /\ toMain = <<>>
    /\ worker = [_pendingCallback |-> 0, _pendingRequest |-> 0, _vectorTilePlugin |-> 0,
                 loaded |-> [u \in Tiles |-> -1], fetching |-> {}]
    /\ wlog = <<>>
    /\ served = [r \in ReqIds |-> NotServed]

\* _updateWorkerData (custom_vector_tile_source.ts 130-166), up to actor.send.
UpdateWorkerData(data) ==
    /\ nLoads < MaxLoads
    /\ nLoads' = nLoads + 1
    /\ _pendingLoads' = _pendingLoads + 1
    /\ events' = [events EXCEPT ![nLoads + 1] = <<"dataloading">>]
    /\ callbacks' = callbacks \cup {DataKey(nLoads + 1)}
    /\ toWorker' = Append(toWorker, Task("loadData", nLoads + 1, 0, data))
    /\ UNCHANGED <<_removed, recv, tileVars, toMain, workerVars>>

\* onAdd and load (custom_vector_tile_source.ts 103-112).  The style calls
\* onAdd once, when it creates the source, before anything else is called.
OnAdd ==
    /\ ~map
    /\ map' = TRUE
    /\ UpdateWorkerData(_data)
    /\ UNCHANGED _data

\* setData (custom_vector_tile_source.ts 120-125).
SetData(d) ==
    /\ map
    /\ _data' = d
    /\ UpdateWorkerData(d)
    /\ UNCHANGED map

\* A bug loadTile could have: the message is chosen by whether a request of
\* the tile is in flight.
TileMessage_ByRequest(t) == IF t.request = 0 THEN "loadTile" ELSE "reloadTile"

\* The message loadTile sends for tile t (custom_vector_tile_source.ts 174).
TileMessage(t) == IF ~t.actor THEN "loadTile" ELSE "reloadTile"

\* loadTile (custom_vector_tile_source.ts 173-216), up to actor.send.
LoadTile(u) ==
    /\ map
    /\ nReqs < MaxTileReqs
    /\ LET r == nReqs + 1
           message == TileMessage(tile[u])
       IN  /\ nReqs' = r
           /\ tile' = [tile EXCEPT ![u].actor = TRUE, ![u].request = r]
           /\ req' = [req EXCEPT ![r] = [NoReq EXCEPT !.uid = u, !.message = message,
                                                     !.afterAbort = tile[u].aborted,
                                                     !.sentRemoved = _removed,
                                                     !.sentLoads = nLoads]]
           /\ callbacks' = callbacks \cup {TileKey(r)}
           /\ toWorker' = Append(toWorker, Task(message, r, u, "-"))
    /\ UNCHANGED <<coordVars, nUnloads, toMain, workerVars>>

\* abortTile (custom_vector_tile_source.ts 218-224).  request.cancel() removes
\* the callback and posts a cancel, which removes the task from the worker's
\* queue if the worker gets it before it processes the task (dropped).
AbortTile(u) ==
    /\ map
    /\ \E dropped \in BOOLEAN :
         LET r == tile[u].request
             at == {k \in 1..Len(toWorker) :
                      toWorker[k].id = r /\ toWorker[k].type \in {"loadTile", "reloadTile"}}
         IN  IF r # 0
             THEN /\ callbacks' = callbacks \ {TileKey(r)}
                  /\ toWorker' = IF dropped /\ at # {}
                                 THEN RemoveAt(toWorker, CHOOSE k \in at : TRUE)
                                 ELSE toWorker
             ELSE UNCHANGED <<callbacks, toWorker>>
    /\ tile' = [tile EXCEPT ![u].request = 0, ![u].aborted = TRUE]
    /\ req' = [r \in ReqIds |->
                 IF req[r].uid = u /\ req[r].done = "none"
                 THEN [req[r] EXCEPT !.aborted = TRUE] ELSE req[r]]
    /\ UNCHANGED <<coordVars, nReqs, nUnloads, toMain, workerVars>>

\* unloadTile (custom_vector_tile_source.ts 226-229).
UnloadTile(u) ==
    /\ map
    /\ nUnloads < MaxUnloads
    /\ nUnloads' = nUnloads + 1
    /\ tile' = [tile EXCEPT ![u].data = -1]
    /\ toWorker' = Append(toWorker, Task("removeTile", 0, u, "-"))
    /\ UNCHANGED <<coordVars, nReqs, req, callbacks, toMain, workerVars>>

\* onRemove (custom_vector_tile_source.ts 231-234); the style calls it once.
OnRemove ==
    /\ map
    /\ ~_removed
    /\ _removed' = TRUE
    /\ toWorker' = Append(toWorker, Task("removeSource", 0, 0, "-"))
    /\ UNCHANGED <<map, _data, _pendingLoads, nLoads, events, recv, tileVars,
                   callbacks, toMain, workerVars>>

\* Actor: a response is passed to the callback registered for its request, and
\* the callback is then forgotten; a response that finds none is dropped.
ActorDelivers(key) == key \in callbacks

\* loaded (custom_vector_tile_source.ts 168-170).
Loaded == _pendingLoads = 0

\* A response to a loadData comes back: the callback of _updateWorkerData
\* (custom_vector_tile_source.ts 143-165) runs.
RecvData ==
    /\ toMain # <<>>
    /\ Head(toMain).type = "data"
    /\ LET m == Head(toMain)
       IN  IF ActorDelivers(DataKey(m.id))
           THEN /\ callbacks' = callbacks \ {DataKey(m.id)}
                /\ _pendingLoads' = _pendingLoads - 1
                /\ events' = [events EXCEPT ![m.id] =
                                @ \o DataCallbackEvents(_removed, m.err, m.res)]
                /\ recv' = [recv EXCEPT ![m.id] = Tag(m)]
           ELSE UNCHANGED <<callbacks, _pendingLoads, events, recv>>
    /\ toMain' = Tail(toMain)
    /\ UNCHANGED <<map, _data, _removed, nLoads, tileVars, toWorker, workerVars>>

\* A response to a loadTile or reloadTile comes back: the callback of loadTile
\* (custom_vector_tile_source.ts 200-215) runs.
RecvTile ==
    /\ toMain # <<>>
    /\ Head(toMain).type = "tile"
    /\ LET m == Head(toMain)
           u == req[m.id].uid
           c == TileCallback(tile[u], m.err, m.ver)
       IN  IF ActorDelivers(TileKey(m.id))
           THEN /\ callbacks' = callbacks \ {TileKey(m.id)}
                /\ tile' = [tile EXCEPT ![u] = c.tile]
                /\ req' = [req EXCEPT ![m.id].done = c.done,
                                      ![m.id].delivered = c.delivered,
                                      ![m.id].recvRemoved = _removed,
                                      ![m.id].recvIndex = worker._vectorTilePlugin,
                                      ![m.id].resp = IF m.err THEN "err" ELSE "data"]
           ELSE UNCHANGED <<callbacks, tile, req>>
    /\ toMain' = Tail(toMain)
    /\ UNCHANGED <<coordVars, nReqs, nUnloads, toWorker, workerVars>>


\* ------------------------------------------------------ the worker's actor
\* The worker's actor processes its tasks one at a time, in the order posted.
Posted(out) ==
    /\ toMain' = toMain \o SelectSeq(out, LAMBDA m : m.type = "data")
    /\ wlog' = wlog \o out

WorkerLoadData ==
    /\ toWorker # <<>>
    /\ Head(toWorker).type = "loadData"
    /\ LET m == Head(toWorker)
           r == loadData(worker, m.id, m.data)
       IN  /\ worker' = r.w
           /\ Posted(r.out)
    /\ toWorker' = Tail(toWorker)
    /\ UNCHANGED <<coordVars, tileVars, callbacks, served>>

\* The getJSON fetch of loadData i completes and calls the callback loadData
\* gave it.
FetchComplete(i, outcome) ==
    /\ i \in worker.fetching
    /\ LET w == [worker EXCEPT !.fetching = @ \ {i}]
           r == IF outcome = "neterr"
                THEN LoadDataCallback(w, i, TRUE, "none")
                ELSE LoadDataCallback(w, i, FALSE, outcome)
       IN  /\ worker' = r.w
           /\ Posted(r.out)
    /\ UNCHANGED <<coordVars, tileVars, callbacks, toWorker, served>>

\* The load function the engine was constructed with (part_000 77-82) need not
\* stop when its handle is cancelled (the handle of part_000 160 does
\* nothing): the completion of the cancelled load i still fires, once.
LateFetchComplete(i, outcome) ==
    /\ \E q \in 1..Len(wlog) : wlog[q] = Cancel(i)
    /\ \A q \in 1..Len(wlog) :
         (wlog[q].type = "data" /\ wlog[q].id = i) => wlog[q].res = "abandoned"
    /\ LET r == IF outcome = "neterr"
                THEN LoadDataCallback(worker, i, TRUE, "none")
                ELSE LoadDataCallback(worker, i, FALSE, outcome)
       IN  /\ worker' = r.w
           /\ Posted(r.out)
    /\ UNCHANGED <<coordVars, tileVars, callbacks, toWorker, served>>

Served(m, r) ==
    /\ worker' = r.w
    /\ toMain' = Append(toMain, TileResp(m.id, r.err, r.ver))
    /\ served' = [served EXCEPT ![m.id] =
                    [path |-> r.path, err |-> r.err, ver |-> r.ver,
                     index |-> worker._vectorTilePlugin,
                     wasLoaded |-> worker.loaded[m.uid] # -1,
                     isLoaded |-> r.w.loaded[m.uid] # -1]]

WorkerLoadTile ==
    /\ toWorker # <<>>
    /\ Head(toWorker).type = "loadTile"
    /\ \E parseOk \in BOOLEAN :
         Served(Head(toWorker), workerLoadTile(worker, Head(toWorker).uid, parseOk))
    /\ toWorker' = Tail(toWorker)
    /\ UNCHANGED <<coordVars, tileVars, callbacks, wlog>>

WorkerReloadTile ==
    /\ toWorker # <<>>
    /\ Head(toWorker).type = "reloadTile"
    /\ \E parseOk \in BOOLEAN :
         Served(Head(toWorker), reloadTile(worker, Head(toWorker).uid, parseOk))
    /\ toWorker' = Tail(toWorker)
    /\ UNCHANGED <<coordVars, tileVars, callbacks, wlog>>

WorkerRemoveTile ==
    /\ toWorker # <<>>
    /\ Head(toWorker).type = "removeTile"
    /\ worker' = removeTile(worker, Head(toWorker).uid)
    /\ toWorker' = Tail(toWorker)
    /\ UNCHANGED <<coordVars, tileVars, callbacks, toMain, wlog, served>>

WorkerRemoveSource ==
    /\ toWorker # <<>>
    /\ Head(toWorker).type = "removeSource"
    /\ LET r == removeSource(worker)
       IN  /\ worker' = r.w
           /\ Posted(r.out)
    /\ toWorker' = Tail(toWorker)
    /\ UNCHANGED <<coordVars, tileVars, callbacks, served>>

Next ==
    \/ OnAdd
    \/ \E d \in DataKinds : SetData(d)
    \/ \E u \in Tiles : LoadTile(u)
    \/ \E u \in Tiles : AbortTile(u)
    \/ \E u \in Tiles : UnloadTile(u)
    \/ OnRemove
    \/ RecvData
    \/ RecvTile
    \/ WorkerLoadData
    \/ \E i \in LoadIds, outcome \in FetchOutcomes : FetchComplete(i, outcome)
    \/ WorkerLoadTile
    \/ WorkerReloadTile
    \/ WorkerRemoveTile
    \/ WorkerRemoveSource

Spec == Init /\ [][Next]_vars

\* Data loading alone: no tile is requested.
NextData ==
    \/ OnAdd
    \/ \E d \in DataKinds : SetData(d)
    \/ OnRemove
    \/ RecvData
    \/ WorkerLoadData
    \/ \E i \in LoadIds, outcome \in FetchOutcomes : FetchComplete(i, outcome)
    \/ WorkerRemoveSource

SpecData == Init /\ [][NextData]_vars

\* Data loading with a load function that cancelling does not stop.
NextLateFetch ==
    \/ NextData
    \/ \E i \in LoadIds, outcome \in FetchOutcomes : LateFetchComplete(i, outcome)

SpecLateFetch == Init /\ [][NextLateFetch]_vars

\* Tile loading, with the one data load of onAdd: no setData, no removal.
NextTile ==
    \/ OnAdd
    \/ \E u \in Tiles : LoadTile(u)
    \/ \E u \in Tiles : AbortTile(u)
    \/ \E u \in Tiles : UnloadTile(u)
    \/ RecvData
    \/ RecvTile
    \/ WorkerLoadData
    \/ \E i \in LoadIds, outcome \in FetchOutcomes : FetchComplete(i, outcome)
    \/ WorkerLoadTile
    \/ WorkerReloadTile
    \/ WorkerRemoveTile

SpecTile == Init /\ [][NextTile]_vars

\* Tile loading and the removal of the source.
NextTileRemove ==
    \/ NextTile
    \/ OnRemove
    \/ WorkerRemoveSource

SpecTileRemove == Init /\ [][NextTileRemove]_vars

\* Tile loading across replacements of the dataset: setData with a dataset
\* that is given inline or by URL, no abort, unload or removal.
ReplaceKinds == {"url", "valid"}
\* How many times setData is called here after onAdd.
MaxReplacements == 1

\* setData called with another dataset.
ReplaceData(d) ==
    /\ nLoads <= MaxReplacements
    /\ SetData(d)

NextReplace ==
    \/ OnAdd
    \/ \E d \in ReplaceKinds : ReplaceData(d)
    \/ \E u \in Tiles : LoadTile(u)
    \/ RecvData
    \/ RecvTile
    \/ WorkerLoadData
    \/ \E i \in LoadIds, outcome \in FetchOutcomes : FetchComplete(i, outcome)
    \/ WorkerLoadTile
    \/ WorkerReloadTile

SpecReplace == Init /\ [][NextReplace]_vars

\* Tile loading, aborting and unloading, with one replacement of the dataset,
\* for a source whose datasets are valid and given inline.
InitInline == Init /\ _data = "valid"

\* setData called once, after onAdd.
ReplaceOnce ==
    /\ nLoads = 1
    /\ SetData("valid")

NextTileReplace ==
    \/ OnAdd
    \/ ReplaceOnce
    \/ \E u \in Tiles : LoadTile(u)
    \/ \E u \in Tiles : AbortTile(u)
    \/ \E u \in Tiles : UnloadTile(u)
    \/ RecvData
    \/ RecvTile
    \/ WorkerLoadData
    \/ WorkerLoadTile
    \/ WorkerReloadTile
    \/ WorkerRemoveTile

SpecTileReplace == InitInline /\ [][NextTileReplace]_vars

\* ------------------------------------------------------------ data loads
Max(S) == CHOOSE x \in S : \A y \in S : y <= x

\* The loadData the engine started last, before position p of wlog.
LastBegun(p) ==
    LET B == {k \in 1..p : wlog[k].type = "begin"}
    IN  IF B = {} THEN 0 ELSE wlog[Max(B)].id

lastStarted == LastBegun(Len(wlog))

\* The calls the engine made of the callback of loadData i.
Calls(i) == SelectSeq(wlog, LAMBDA m : m.type = "data" /\ m.id = i)

\* Nothing of a data load is under way.
Quiescent == toWorker = <<>> /\ toMain = <<>> /\ worker.fetching = {}

\* C1, as claimed: a loadData callback receives a result that is not
\* {abandoned: true} only when it is the callback of the most recent setData
\* (or load) call.
C1_OnlyMostRecentCall ==
    [][\A i \in LoadIds :
         (recv[i] = "none" /\ recv'[i] \notin {"none", "abandoned"}) => i = nLoads]_vars

\* C1, amended: a result that is not {abandoned: true} goes only to the
\* loadData the engine started last: the engine calls back with one only the
\* load it began last, a callback receives one only from such a call, and
\* every load begun before the last one has been called back (with its result
\* before the next began, or with {abandoned: true} when it began).
C1_OnlyLastStartedLoad ==
    /\ \A p \in 1..Len(wlog) :
         (wlog[p].type = "data" /\ wlog[p].res # "abandoned") => LastBegun(p) = wlog[p].id
    /\ \A i \in LoadIds :
         recv[i] \notin {"none", "abandoned"} =>
            \E p \in 1..Len(wlog) :
               /\ wlog[p].type = "data" /\ wlog[p].id = i
               /\ Tag(wlog[p]) = recv[i]
               /\ LastBegun(p) = i
    /\ \A i \in LoadIds : i < lastStarted => Calls(i) # <<>>

\* A load was abandoned by the next one, which then got its result.
C1_Witness == recv[1] = "abandoned" /\ recv[2] = "result"

\* C2: at most one loadData is in flight in the engine, the one begun last;
\* when a loadData begins while the fetch of the previous one is in flight,
\* that fetch is cancelled and the previous callback is called with
\* {abandoned: true} before the new fetch starts.
C2_OneLoadInFlight ==
    /\ Cardinality(worker.fetching) <= 1
    /\ \A i \in worker.fetching :
         i = lastStarted /\ worker._pendingRequest = i /\ worker._pendingCallback = i
    /\ \A p \in 1..Len(wlog) :
         wlog[p].type = "fetch" =>
            \A i \in LoadIds :
               (\E q \in 1..(p - 1) : wlog[q].type = "fetch" /\ wlog[q].id = i) =>
                  \/ \E q \in 1..(p - 1) :
                        wlog[q].type = "data" /\ wlog[q].id = i /\ wlog[q].res # "abandoned"
                  \/ /\ \E q \in 1..(p - 1) : wlog[q] = Cancel(i)
                     /\ \E q \in 1..(p - 1) : wlog[q] = DataResp(i, FALSE, "abandoned")

\* A fetch was cancelled and its callback abandoned, and the next fetch runs.
C2_Witness ==
    /\ worker.fetching = {2}
    /\ \E q \in 1..Len(wlog) : wlog[q] = Cancel(1)

\* C3, as claimed: _pendingLoads is never negative, and the engine calls the
\* callback of every loadData exactly once: never twice, and once when
\* nothing is under way any more.
C3_CalledBackExactlyOnce ==
    /\ _pendingLoads >= 0
    /\ \A i \in LoadIds : Len(Calls(i)) <= 1
    /\ Quiescent => \A i \in 1..nLoads : Len(Calls(i)) = 1

\* C4: once every loadData that was sent has completed or was abandoned,
\* _pendingLoads is 0 and loaded() is true; and _pendingLoads is always the
\* number of loads whose callback has not been called.
C4_PendingLoadsReturnToZero ==
    /\ _pendingLoads = Cardinality({i \in LoadIds : DataKey(i) \in callbacks})
    /\ Quiescent => (_pendingLoads = 0 /\ Loaded)

\* All the loads were sent, one of them was superseded, and all are done.
C4_Witness ==
    /\ nLoads = MaxLoads /\ Quiescent /\ Loaded
    /\ \E i \in LoadIds : recv[i] = "abandoned"

\* C5: every load fires dataloading when it is sent, and then, when its
\* callback is called, exactly one of data, dataabort and error.
C5_OneEventPerLoad ==
    \A i \in LoadIds :
       /\ i > nLoads => events[i] = <<>>
       /\ i <= nLoads =>
            /\ events[i] # <<>> /\ events[i][1] = "dataloading"
            /\ recv[i] = "none" => Len(events[i]) = 1
            /\ recv[i] # "none" =>
                 /\ Len(events[i]) = 2
                 /\ events[i][2] \in {"data", "dataabort", "error"}

\* One load ended with dataabort, one with data and one with error.
C5_Witness ==
    \E i, j, k \in LoadIds :
       /\ events[i] = <<"dataloading", "dataabort">>
       /\ events[j] = <<"dataloading", "data">>
       /\ events[k] = <<"dataloading", "error">>

\* C6: once the source is removed, it fires no data and no error event.
C6_NoDataEventAfterRemoval ==
    [][_removed =>
         \A i \in LoadIds :
            \/ events'[i] = events[i]
            \/ events'[i][Len(events'[i])] \in {"dataloading", "dataabort"}]_vars

\* After the removal, a result and an error came back, for a load sent
\* before the removal and for one sent after it, and dataabort was fired.
C6_Witness ==
    /\ _removed
    /\ \E i, j \in LoadIds :
         /\ i # j
         /\ recv[i] = "result" /\ events[i] = <<"dataloading", "dataabort">>
         /\ recv[j] = "error" /\ events[j] = <<"dataloading", "dataabort">>


\* ------------------------------------------------------------ tile loads
\* The tile requests that were sent.
Sent == {r \in ReqIds : req[r].message # "none"}

\* C7, as claimed: the response to a tile request that was sent before the
\* source was removed, coming after the removal, does not give the tile its
\* data.
C7_LateTileIgnoredAfterRemoval ==
    \A r \in Sent :
       (~req[r].sentRemoved /\ req[r].recvRemoved) => ~req[r].delivered

\* C8: when abortTile is called while a request of the tile is in flight,
\* a response to that request gives the tile no data and its error is
\* not passed to done.
C8_AbortedRequestIgnored ==
    \A r \in Sent :
       req[r].aborted => (~req[r].delivered /\ req[r].done # "err")

\* A response came for a request after abortTile, and the callback ignored it.
C8_Witness ==
    \E r \in Sent :
       req[r].aborted /\ req[r].resp # "none" /\ req[r].done = "ok" /\ ~req[r].delivered

\* C9, as claimed: when a request of a tile was aborted by abortTile, a later
\* loadTile of the tile, not aborted itself, whose response is a success,
\* gives the tile its data.
C9_FreshRequestDelivered ==
    \A r \in Sent :
       (/\ \E r0 \in Sent : r0 < r /\ req[r0].uid = req[r].uid /\ req[r0].aborted
        /\ req[r].afterAbort /\ ~req[r].aborted
        /\ req[r].resp = "data") => req[r].delivered

\* C10: the engine serves a reloadTile of a tile that is not in this.loaded
\* as a loadTile (it records the tile in this.loaded), and re-encodes only a
\* tile that is in this.loaded; either way the tile returned, unless parsing
\* fails, is the one of the current index.
C10_ReloadFallsBackToLoad ==
    \A r \in Sent :
       (req[r].message = "reloadTile" /\ served[r].path # "none") =>
          /\ ~served[r].wasLoaded => (served[r].path = "load" /\ served[r].isLoaded)
          /\ served[r].wasLoaded => served[r].path = "reencode"
          /\ ~served[r].err => served[r].ver = served[r].index

\* A reloadTile of a tile that was not in this.loaded returned the tile of
\* the index.
C10_Witness ==
    \E r \in Sent :
       /\ req[r].message = "reloadTile"
       /\ ~served[r].wasLoaded /\ served[r].path = "load" /\ served[r].ver > 0

\* --------------------------------------------- replacements of the dataset
\* C11, as claimed: a tile request that was sent before the setData call
\* whose dataset the engine has indexed by the time the response comes, and
\* that the engine served from an older index, does not give the tile its
\* data.
C11_NoStaleTileDelivered ==
    \A r \in Sent :
       (/\ served[r].ver > 0
        /\ req[r].resp # "none"
        /\ req[r].sentLoads < req[r].recvIndex
        /\ served[r].ver < req[r].recvIndex) => ~req[r].delivered

\* The fetches that were cancelled and whose completion has not fired.
CancelledPending ==
    {i \in LoadIds :
       /\ \E q \in 1..Len(wlog) : wlog[q] = Cancel(i)
       /\ \A q \in 1..Len(wlog) :
            (wlog[q].type = "data" /\ wlog[q].id = i) => wlog[q].res = "abandoned"}

\* C12, as claimed: the engine builds an index (and resets this.loaded) only
\* from the data of the loadData it began last, also when the completion of
\* a cancelled fetch still fires; and when every load has completed and the
\* most recent one succeeded, the index is the one of the most recent dataset.
C12_FreshestWriteWins ==
    /\ \A p \in 1..Len(wlog) :
         (wlog[p].type = "data" /\ wlog[p].res = "result") => LastBegun(p) = wlog[p].id
    /\ (/\ Quiescent /\ CancelledPending = {}
        /\ nLoads >= 1
        /\ \E p \in 1..Len(wlog) : wlog[p] = DataResp(nLoads, FALSE, "result"))
       => worker._vectorTilePlugin = nLoads

\* The engine built an index from the data of loadData i.
Built(i) == \E p \in 1..Len(wlog) : wlog[p] = DataResp(i, FALSE, "result")

\* C15, as claimed: a loadData callback that is called with something else
\* than {abandoned: true}, when no index was built from its data, is called
\* with an error, and the coordinator does not fire a data event for it.
C15_NoIndexNoSuccess ==
    \A i \in LoadIds :
       (recv[i] \notin {"none", "abandoned"} /\ ~Built(i)) =>
          /\ recv[i] = "error"
          /\ \A k \in 1..Len(events[i]) : events[i][k] # "data"

\* ------------------------------------------------- removal of the source
\* Where in wlog removeSource ran, 0 if it has not.
RemovedAt ==
    LET R == {q \in 1..Len(wlog) : wlog[q] = SourceRemoved}
    IN  IF R = {} THEN 0 ELSE Max(R)

\* The loads the engine began before position p of wlog.
BegunBefore(p) == {wlog[q].id : q \in {k \in 1..p : wlog[k].type = "begin"}}

\* C13, as claimed: once removeSource has run, and until a loadData begun
\* after it succeeds, the engine holds no index and no loaded tile, and every
\* loadData begun before it has been called back.
C13_RemovedEngineHoldsNothing ==
    (/\ RemovedAt # 0
     /\ \A q \in 1..Len(wlog) :
          (wlog[q].type = "data" /\ wlog[q].res = "result") =>
             wlog[q].id \in BegunBefore(RemovedAt))
    => /\ worker._vectorTilePlugin = 0
       /\ \A u \in Tiles : worker.loaded[u] = -1
       /\ \A i \in BegunBefore(RemovedAt) : Calls(i) # <<>>

\* ------------------------------------------------------------ tile loads
\* C14, as claimed: when the engine has no index, its loadTile completes
\* with an error.
C14_NoIndexIsAnError ==
    \A r \in Sent :
       (served[r].path = "load" /\ served[r].index = 0) => served[r].err

\* C16: the first request of a tile that the engine serves from an index,
\* after that index was built, finds the tile not in this.loaded and is served
\* as a loadTile, from that index (unless parsing fails): a successful
\* loadData left this.loaded empty.
C16_FirstReloadAfterReplacementLoads ==
    \A r \in Sent :
       (/\ served[r].path # "none"
        /\ served[r].index > 0
        /\ \A r0 \in Sent :
             (r0 < r /\ req[r0].uid = req[r].uid /\ served[r0].path # "none")
                => served[r0].index # served[r].index)
       => /\ ~served[r].wasLoaded
          /\ served[r].path = "load"
          /\ ~served[r].err => served[r].ver = served[r].index

\* A tile was loaded from the first index, the dataset was replaced, and a
\* reloadTile of the tile was then served as a loadTile from the new index.
C16_Witness ==
    \E r0, r \in Sent :
       /\ r0 < r /\ req[r0].uid = req[r].uid
       /\ served[r0].ver = 1 /\ served[r0].isLoaded
       /\ req[r].message = "reloadTile"
       /\ served[r].index = 2 /\ served[r].path = "load" /\ served[r].ver = 2

\* C17: the coordinator sends "loadTile" for the first loadTile call of a
\* tile and "reloadTile" for every later one, whatever happened in between;
\* so at most one "loadTile" is sent for a tile.
C17_LoadTileOnceThenReload ==
    \A r \in Sent :
       /\ req[r].message \in {"loadTile", "reloadTile"}
       /\ req[r].message = "loadTile"
            <=> (\A r0 \in Sent : r0 < r => req[r0].uid # req[r].uid)

\* A tile was requested, aborted and unloaded, the dataset was replaced, and
\* the tile was requested again: "reloadTile" was sent.
C17_Witness ==
    \E r1, r2 \in Sent :
       /\ r1 < r2 /\ req[r1].uid = req[r2].uid
       /\ req[r1].aborted /\ nUnloads >= 1
       /\ req[r1].sentLoads = 1 /\ req[r2].sentLoads = 2
       /\ req[r2].message = "reloadTile"

\* The requests of tile u in flight: sent, not cancelled, response not come.
InFlight(u) == {r \in Sent : req[r].uid = u /\ TileKey(r) \in callbacks}

\* C18, as claimed: while a tile that was never aborted has requests in
\* flight, tile.request is the handle of the one sent last, also after the
\* response to an earlier one has come.
C18_RequestHandleIsLatestInFlight ==
    \A u \in Tiles :
       (~tile[u].aborted /\ InFlight(u) # {}) => tile[u].request = Max(InFlight(u))

\* C19: a step of the engine in which a loadData callback is called with an
\* error leaves the index and this.loaded as they were.
C19_FailedLoadKeepsIndex ==
    [][(\E p \in (Len(wlog) + 1)..Len(wlog') : wlog'[p].type = "data" /\ wlog'[p].err)
         => /\ worker'._vectorTilePlugin = worker._vectorTilePlugin
            /\ worker'.loaded = worker.loaded]_vars

\* A tile was loaded from the first index, the load of the next dataset
\* failed, and the engine still holds the first index and the tile.
C19_Witness ==
    /\ \E p \in 1..Len(wlog) : wlog[p] = DataResp(2, TRUE, "none")
    /\ worker._vectorTilePlugin = 1
    /\ \E u \in Tiles : worker.loaded[u] = 1
    /\ \E r \in Sent : served[r].ver = 1

====
